---- MODULE Spec2Model ----
(***************************************************************************)
(* Model of src/botcity_aux/bot_runner.py: the two runners                 *)
(* BotRunnerMaestro and BotRunnerLocal, their constructors and the         *)
(* bounded-retry loop of run().                                            *)
(*                                                                         *)
(* The task function (main) and the collaborators (orchestrator,           *)
(* SharePoint storage, SQL log sink, Telegram) are the environment: the    *)
(* task's outcome on its i-th invocation is taskPlan[i]; every             *)
(* collaborator call may return or raise an Exception.  Every call is      *)
(* appended to the runner's call trace, calls[r].                          *)
(***************************************************************************)
EXTENDS Integers, Sequences, FiniteSets

\* ---------------------------------------------------------------- bounds
\* largest max_retries a runner is configured with
MaxRetriesBound == 2
\* largest number of collaborator calls that raise during the run() calls
MaxFaults == 1
\* resolution of the model's clock: time.time() is read in ticks of
\* 1/TicksPerSecond second
TicksPerSecond == 2

\* ------------------------------------------------------------ input sets
Maestro == "Maestro"
Local == "Local"
Runners == {Maestro, Local}

\* max_retries: int = 0 is not validated by the constructors, so a negative
\* value is a possible argument
RetryValues == (-1) .. MaxRetriesBound
\* telegram_group: Optional[str] = None
NoneGroup == "None"
GroupValues == {NoneGroup, "", "grp"}
\* the task is invoked at most MaxRetriesBound + 1 times in one run()
PlanLen == MaxRetriesBound + 1
TaskPlans == [1 .. PlanLen -> BOOLEAN]
\* whole seconds an invocation of the task function may take: none, just
\* under a day, 1 day 1 h 1 min 1 s, and more than 99 days
SecondsValues == {0, 86399, 90061, 8643661}
\* the same in clock ticks, each ending just before the next whole second
DurationValues == {s * TicksPerSecond + (TicksPerSecond - 1) : s \in SecondsValues}
\* self.start_time: Optional[float] = None
NoneTime == <<>>

VARIABLES
    max_retries,     \* self.max_retries (both runners get the same arguments)
    use_telegram,    \* self.use_telegram
    telegram_group,  \* the telegram_group argument
    taskPlan,        \* taskPlan[i]: does the i-th invocation of main() return
    ctor,            \* ctor[r]: outcome of r's __init__
    pc,              \* pc[r]: position of r's run()
    attempts,        \* attempts[r]: the local variable of run()
    e,               \* e[r]: the exception bound by "except Exception as e"
    pending,         \* pending[r]: how the try statement is left once finally ran
    calls,           \* calls[r]: every call run() made so far, in order
    result,          \* result[r]: how run() ended
    faults,          \* number of collaborator calls that raised so far
    durations,       \* the durations (ticks) an invocation of the task can take
    now,             \* time.time(), in ticks
    start_time,      \* start_time[r]: self.start_time, NoneTime or <<ticks>>
    execution_time,  \* execution_time[r]: last result of _get_execution_time()
    taskTicks        \* taskTicks[r]: ticks the last task invocation took

vars == <<max_retries, use_telegram, telegram_group, taskPlan, ctor, pc,
          attempts, e, pending, calls, result, faults, durations, now,
          start_time, execution_time, taskTicks>>
config == <<max_retries, use_telegram, telegram_group, taskPlan, durations>>
clock == <<now, start_time, execution_time, taskTicks>>

\* ---------------------------------------------------------------- errors
NoError == [kind |-> "none", op |-> "-", n |-> 0]
\* the exception raised by the n-th invocation of the task function
TaskError(n) == [kind |-> "task", op |-> "task", n |-> n]
\* the exception raised by the collaborator call op, the n-th call of run()
CollabError(op, n) == [kind |-> "collab", op |-> op, n |-> n]

\* ------------------------------------------------------------ call trace
Call(op, arg, blk, ok) == [op |-> op, arg |-> arg, blk |-> blk, ok |-> ok]

IsTask(c) == c.op = "task"
IsFlush(c) == c.op = "post_artifact"
IsFinish(c) == c.op = "finish_task"
IsErrorReport(c) == c.op = "error"
IsNotify(c) == c.op \in {"send_message", "upload_document"}
IsCollab(c) == c.op # "task"

TaskCalls(r) == Len(SelectSeq(calls[r], IsTask))

\* ------------------------------------------------------------------ Init
\* the state before any constructor ran
Fresh ==
    /\ max_retries \in RetryValues
    /\ use_telegram \in BOOLEAN
    /\ telegram_group \in GroupValues
    /\ taskPlan \in TaskPlans
    /\ ctor = [r \in Runners |-> "none"]
    /\ pc = [r \in Runners |-> "new"]
    /\ attempts = [r \in Runners |-> 0]
    /\ e = [r \in Runners |-> NoError]
    /\ pending = [r \in Runners |-> [kind |-> "none", err |-> NoError]]
    /\ calls = [r \in Runners |-> <<>>]
    /\ result = [r \in Runners |-> [kind |-> "none", err |-> NoError]]
    /\ now = 0
    /\ start_time = [r \in Runners |-> NoneTime]
    /\ execution_time = [r \in Runners |-> ""]
    /\ taskTicks = [r \in Runners |-> 0]

\* Spec leaves time out: every invocation of the task function takes no time
Init ==
    /\ Fresh
    /\ faults = 0
    /\ durations = {0}

\* SpecTime: the task function takes time and every collaborator call returns
\* (no collaborator failure is left to happen)
TimeInit ==
    /\ Fresh
    /\ faults = MaxFaults
    /\ durations = DurationValues

\* the program is single-threaded and run() is synchronous: a call of run()
\* or of a constructor starts only when no run() is in progress
InRun(r) == pc[r] \notin {"new", "idle", "done"}
Quiet == \A r \in Runners : ~InRun(r)

\* ---------------------------------------------------------- constructors
GroupError == "ValueError: Telegram group must be provided when use_telegram is True."
TokenError == "ValueError: Telegram Token must be provided in Maestro credentials"
SetupError == "Exception: collaborator call failed during construction"

\* mutant: the check tests "telegram_group is None" and lets "" through
TelegramGroupIsNone(use, group) == use /\ group = NoneGroup

\* if self.use_telegram: if not telegram_group: raise ValueError(...)
TelegramGroupMissing(use, group) == use /\ (group = NoneGroup \/ group = "")

\* BotRunnerMaestro.__init__: the session set-up and the SharePoint credential
\* reads come first (setupOK: they all return), then the telegram block; the
\* token is read only when use_telegram is set.
M_CtorOutcome(use, group, setupOK, token) ==
    IF ~setupOK THEN SetupError
    ELSE IF TelegramGroupMissing(use, group) THEN GroupError
    ELSE IF use /\ token = "" THEN TokenError
    ELSE "ok"

M_Construct ==
    /\ pc[Maestro] = "new"
    /\ ctor[Maestro] = "none"
    /\ Quiet
    /\ \E setupOK \in BOOLEAN, token \in {"", "tok"} :
         LET out == M_CtorOutcome(use_telegram, telegram_group, setupOK, token) IN
         /\ ctor' = [ctor EXCEPT ![Maestro] = out]
         /\ pc' = [pc EXCEPT ![Maestro] = IF out = "ok" THEN "idle" ELSE "new"]
    /\ UNCHANGED <<config, clock, attempts, e, pending, calls, result, faults>>

\* BotRunnerLocal.__init__: login and the SharePoint credential reads come
\* first, then the same telegram block.
L_CtorOutcome(use, group, setupOK, token) ==
    IF ~setupOK THEN SetupError
    ELSE IF TelegramGroupMissing(use, group) THEN GroupError
    ELSE IF use /\ token = "" THEN TokenError
    ELSE "ok"

L_Construct ==
    /\ pc[Local] = "new"
    /\ ctor[Local] = "none"
    /\ Quiet
    /\ \E setupOK \in BOOLEAN, token \in {"", "tok"} :
         LET out == L_CtorOutcome(use_telegram, telegram_group, setupOK, token) IN
         /\ ctor' = [ctor EXCEPT ![Local] = out]
         /\ pc' = [pc EXCEPT ![Local] = IF out = "ok" THEN "idle" ELSE "new"]
    /\ UNCHANGED <<config, clock, attempts, e, pending, calls, result, faults>>

\* ------------------------------------------------- the try statement
Break == [kind |-> "break", err |-> NoError]
Continue == [kind |-> "continue", err |-> NoError]
Raise(err) == [kind |-> "raise", err |-> err]
NotPending == [kind |-> "none", err |-> NoError]

\* what follows the try statement once it is left by p: break ends the while
\* loop and run() returns; falling off the handler goes back to the loop
\* test; an exception in flight ends run()
Complete(r, p) ==
    /\ pc' = [pc EXCEPT ![r] =
                IF p.kind = "continue" THEN "loop" ELSE "done"]
    /\ result' = [result EXCEPT ![r] =
                IF p.kind = "break" THEN [kind |-> "returned", err |-> NoError]
                ELSE IF p.kind = "raise" THEN [kind |-> "raised", err |-> p.err]
                ELSE @]
    /\ pending' = [pending EXCEPT ![r] = NotPending]

\* mutant: the flush follows the try statement instead of being its finally
\* clause, so an exception in flight skips it
M_LeaveFlushAfterTry(p) ==
    IF p.kind = "raise"
      THEN Complete(Maestro, p)
      ELSE /\ pc' = [pc EXCEPT ![Maestro] = "finally"]
           /\ pending' = [pending EXCEPT ![Maestro] = p]
           /\ UNCHANGED result

\* BotRunnerMaestro.run: the try statement has a finally clause, which runs
\* on every way out of the try and except blocks
M_Leave(p) ==
    /\ pc' = [pc EXCEPT ![Maestro] = "finally"]
    /\ pending' = [pending EXCEPT ![Maestro] = p]
    /\ UNCHANGED result

\* BotRunnerLocal.run: the try statement has no finally clause
L_Leave(p) == Complete(Local, p)

Leave(r, p) == IF r = Maestro THEN M_Leave(p) ELSE L_Leave(p)

\* a collaborator call returns (TRUE) or raises an Exception (FALSE)
CollabOutcomes == IF faults < MaxFaults THEN BOOLEAN ELSE {TRUE}

Record(r, c) == calls' = [calls EXCEPT ![r] = Append(@, c)]

\* a collaborator call in the try block: an Exception it raises is caught by
\* "except Exception as e", like one raised by the task function
TryCall(r, op, arg, next) ==
    /\ \E ok \in CollabOutcomes :
         /\ Record(r, Call(op, arg, "try", ok))
         /\ faults' = IF ok THEN faults ELSE faults + 1
         /\ IF ~ok
              THEN /\ pc' = [pc EXCEPT ![r] = "except"]
                   /\ e' = [e EXCEPT ![r] = CollabError(op, Len(calls[r]) + 1)]
                   /\ UNCHANGED <<pending, result>>
              ELSE /\ UNCHANGED e
                   /\ IF next = "break"
                        THEN Leave(r, Break)
                        ELSE /\ pc' = [pc EXCEPT ![r] = next]
                             /\ UNCHANGED <<pending, result>>
    /\ UNCHANGED <<config, clock, ctor, attempts>>

\* a collaborator call in the except block: an Exception it raises leaves the
\* try statement
HandlerCall(r, op, arg, next) ==
    /\ \E ok \in CollabOutcomes :
         /\ Record(r, Call(op, arg, "except", ok))
         /\ faults' = IF ok THEN faults ELSE faults + 1
         /\ IF ~ok
              THEN Leave(r, Raise(CollabError(op, Len(calls[r]) + 1)))
              ELSE IF next = "raise"
                     THEN Leave(r, Raise(e[r]))
                     ELSE /\ pc' = [pc EXCEPT ![r] = next]
                          /\ UNCHANGED <<pending, result>>
    /\ UNCHANGED <<config, clock, ctor, attempts, e>>

\* mutant: while attempts < self.max_retries
LoopGuardStrict(a, n) == a < n
\* mutant: if attempts >= self.max_retries
RetriesExhaustedEarly(a, n) == a >= n
\* mutant: while attempts <= self.max_retries + 1
LoopGuardOffByOne(a, n) == a <= n + 1
\* mutant: attempts += 2
NextAttemptsTwice(a) == a + 2

\* while attempts <= self.max_retries
LoopGuard(a, n) == a <= n
\* if attempts > self.max_retries
RetriesExhausted(a, n) == a > n
\* attempts += 1
NextAttempts(a) == a + 1

\* ------------------------------------------------ steps shared in shape
\* attempts = 0
StartRun(r) ==
    /\ ctor[r] = "ok"
    /\ Quiet
    /\ attempts' = [attempts EXCEPT ![r] = 0]
    /\ pc' = [pc EXCEPT ![r] = "loop"]
    /\ UNCHANGED <<config, clock, ctor, e, pending, calls, result, faults>>

\* the while test: a false test ends the loop and run() returns None
LoopTest(r) ==
    /\ IF LoopGuard(attempts[r], max_retries)
         THEN /\ pc' = [pc EXCEPT ![r] = "task"]
              /\ UNCHANGED result
         ELSE /\ pc' = [pc EXCEPT ![r] = "done"]
              /\ result' = [result EXCEPT ![r] = [kind |-> "returned", err |-> NoError]]
    /\ UNCHANGED <<config, clock, ctor, attempts, e, pending, calls, faults>>

\* ------------------------------------------------------ execution time
DigitChar == <<"0", "1", "2", "3", "4", "5", "6", "7", "8", "9">>
\* str(n) for n >= 0
RECURSIVE Decimal(_)
Decimal(n) ==
    IF n < 10 THEN DigitChar[n + 1]
    ELSE Decimal(n \div 10) \o DigitChar[(n % 10) + 1]
\* f"{n:02}" for n >= 0: zero-padded to a width of at least 2
Format02(n) == IF n < 10 THEN "0" \o Decimal(n) ELSE Decimal(n)

\* mutant: the hours are taken from the elapsed time, not from the remainder
\* of the days
GetExecutionTimeHoursOfTotal(start, end) ==
    IF start = NoneTime THEN "Execution time not available"
    ELSE LET elapsed_seconds == (end - start[1]) \div TicksPerSecond
             days == elapsed_seconds \div 86400
             hours == elapsed_seconds \div 3600
             rem2 == elapsed_seconds % 3600
             minutes == rem2 \div 60
             seconds == rem2 % 60
         IN Format02(days) \o ":" \o Format02(hours) \o ":"
              \o Format02(minutes) \o ":" \o Format02(seconds)

\* _get_execution_time(), called at time end with self.start_time = start:
\* int() truncates the elapsed time to whole seconds, then three divmod
\* steps and the f-string
GetExecutionTime(start, end) ==
    IF start = NoneTime THEN "Execution time not available"
    ELSE LET elapsed_seconds == (end - start[1]) \div TicksPerSecond
             days == elapsed_seconds \div 86400
             rem1 == elapsed_seconds % 86400
             hours == rem1 \div 3600
             rem2 == rem1 % 3600
             minutes == rem2 \div 60
             seconds == rem2 % 60
         IN Format02(days) \o ":" \o Format02(hours) \o ":"
              \o Format02(minutes) \o ":" \o Format02(seconds)

\* self.start_time = time.time(); self._execute_bot_task(): the i-th
\* invocation takes d ticks and returns iff taskPlan[i]; an Exception it
\* raises is caught by "except Exception as e"; when it returns,
\* self._get_execution_time() is evaluated
ExecuteBotTask(r, next) ==
    /\ TaskCalls(r) < PlanLen
    /\ \E d \in durations :
         /\ start_time' = [start_time EXCEPT ![r] = <<now>>]
         /\ now' = now + d
         /\ taskTicks' = [taskTicks EXCEPT ![r] = d]
    /\ LET i == TaskCalls(r) + 1 IN
         /\ Record(r, Call("task", "-", "try", taskPlan[i]))
         /\ IF taskPlan[i]
              THEN /\ pc' = [pc EXCEPT ![r] = next]
                   /\ execution_time' = [execution_time EXCEPT ![r] =
                            GetExecutionTime(start_time'[r], now')]
                   /\ UNCHANGED e
              ELSE /\ pc' = [pc EXCEPT ![r] = "except"]
                   /\ e' = [e EXCEPT ![r] = TaskError(i)]
                   /\ UNCHANGED execution_time
    /\ UNCHANGED <<config, ctor, attempts, pending, result, faults>>

\* except Exception as e: attempts += 1
EnterHandler(r, next) ==
    /\ attempts' = [attempts EXCEPT ![r] = NextAttempts(@)]
    /\ pc' = [pc EXCEPT ![r] = next]
    /\ UNCHANGED <<config, clock, ctor, e, pending, calls, result, faults>>

\* ------------------------------------------------- BotRunnerMaestro.run
M_Start ==
    /\ pc[Maestro] = "idle"
    /\ StartRun(Maestro)
M_Loop ==
    /\ pc[Maestro] = "loop"
    /\ LoopTest(Maestro)
M_Task ==
    /\ pc[Maestro] = "task"
    /\ ExecuteBotTask(Maestro, "sp_list")
M_ListFolders ==
    /\ pc[Maestro] = "sp_list"
    /\ TryCall(Maestro, "list_folders_by_number", "-", "sp_upload")
\* mutant: an error of the storage upload is swallowed and the attempt goes on
M_UploadErrorIgnored ==
    /\ pc[Maestro] = "sp_upload"
    /\ \E ok \in CollabOutcomes :
         /\ Record(Maestro, Call("upload_files", "-", "try", ok))
         /\ faults' = IF ok THEN faults ELSE faults + 1
    /\ pc' = [pc EXCEPT ![Maestro] = "db_insert"]
    /\ UNCHANGED <<config, clock, ctor, attempts, e, pending, result>>
M_Upload ==
    /\ pc[Maestro] = "sp_upload"
    /\ TryCall(Maestro, "upload_files", "-", "db_insert")
M_InsertLog ==
    /\ pc[Maestro] = "db_insert"
    /\ TryCall(Maestro, "insert_log", "-", "finish")
M_FinishSuccess ==
    /\ pc[Maestro] = "finish"
    /\ TryCall(Maestro, "finish_task", "SUCCESS",
            IF use_telegram THEN "tg_send" ELSE "break")
M_SendMessage ==
    /\ pc[Maestro] = "tg_send"
    /\ TryCall(Maestro, "send_message", "completed", "tg_doc")
M_UploadDocument ==
    /\ pc[Maestro] = "tg_doc"
    /\ TryCall(Maestro, "upload_document", "-", "break")

M_Except ==
    /\ pc[Maestro] = "except"
    /\ EnterHandler(Maestro, "error")
M_Error ==
    /\ pc[Maestro] = "error"
    /\ HandlerCall(Maestro, "error", "-", "finish_failed")
\* mutant: the handler sends no notification
M_FinishFailedNoNotify ==
    /\ pc[Maestro] = "finish_failed"
    /\ HandlerCall(Maestro, "finish_task", "FAILED", "check")
M_FinishFailed ==
    /\ pc[Maestro] = "finish_failed"
    /\ HandlerCall(Maestro, "finish_task", "FAILED",
                IF use_telegram THEN "x_tg_send" ELSE "check")
M_ErrSendMessage ==
    /\ pc[Maestro] = "x_tg_send"
    /\ HandlerCall(Maestro, "send_message", "error", "x_tg_doc")
M_ErrUploadDocument ==
    /\ pc[Maestro] = "x_tg_doc"
    /\ HandlerCall(Maestro, "upload_document", "-", "check")

\* if attempts > self.max_retries: upload the log and raise e; else retry
M_Check ==
    /\ pc[Maestro] = "check"
    /\ IF RetriesExhausted(attempts[Maestro], max_retries)
         THEN /\ pc' = [pc EXCEPT ![Maestro] = "x_sp_list"]
              /\ UNCHANGED <<pending, result>>
         ELSE Leave(Maestro, Continue)
    /\ UNCHANGED <<config, clock, ctor, attempts, e, calls, faults>>

M_GiveUpListFolders ==
    /\ pc[Maestro] = "x_sp_list"
    /\ HandlerCall(Maestro, "list_folders_by_number", "-", "x_sp_upload")
M_GiveUpUpload ==
    /\ pc[Maestro] = "x_sp_upload"
    /\ HandlerCall(Maestro, "upload_files", "-", "raise")

\* finally: self._add_log_file_into_maestro(), which re-raises what
\* post_artifact raises; that exception replaces the one in flight
M_Finally ==
    /\ pc[Maestro] = "finally"
    /\ \E ok \in CollabOutcomes :
         /\ Record(Maestro, Call("post_artifact", "-", "finally", ok))
         /\ faults' = IF ok THEN faults ELSE faults + 1
         /\ Complete(Maestro,
                     IF ok THEN pending[Maestro]
                     ELSE Raise(CollabError("post_artifact", Len(calls[Maestro]) + 1)))
    /\ UNCHANGED <<config, clock, ctor, attempts, e>>

\* --------------------------------------------------- BotRunnerLocal.run
L_Start ==
    /\ pc[Local] = "idle"
    /\ StartRun(Local)
L_Loop ==
    /\ pc[Local] = "loop"
    /\ LoopTest(Local)
L_Task ==
    /\ pc[Local] = "task"
    /\ ExecuteBotTask(Local, "sp_list")
L_ListFolders ==
    /\ pc[Local] = "sp_list"
    /\ TryCall(Local, "list_folders_by_number", "-", "sp_upload")
L_Upload ==
    /\ pc[Local] = "sp_upload"
    /\ TryCall(Local, "upload_files", "-", "db_insert")
L_InsertLog ==
    /\ pc[Local] = "db_insert"
    /\ TryCall(Local, "insert_log", "-",
            IF use_telegram THEN "tg_send" ELSE "break")
L_SendMessage ==
    /\ pc[Local] = "tg_send"
    /\ TryCall(Local, "send_message", "completed", "tg_doc")
L_UploadDocument ==
    /\ pc[Local] = "tg_doc"
    /\ TryCall(Local, "upload_document", "-", "break")

L_Except ==
    /\ pc[Local] = "except"
    /\ EnterHandler(Local, IF use_telegram THEN "x_tg_send" ELSE "check")
L_ErrSendMessage ==
    /\ pc[Local] = "x_tg_send"
    /\ HandlerCall(Local, "send_message", "error", "x_tg_doc")
L_ErrUploadDocument ==
    /\ pc[Local] = "x_tg_doc"
    /\ HandlerCall(Local, "upload_document", "-", "check")

\* mutant: the local runner gives up on the first failure
L_CheckNoRetry ==
    /\ pc[Local] = "check"
    /\ Leave(Local, Raise(e[Local]))
    /\ UNCHANGED <<config, clock, ctor, attempts, e, calls, faults>>

\* if attempts > self.max_retries: raise e; else retry
L_Check ==
    /\ pc[Local] = "check"
    /\ IF RetriesExhausted(attempts[Local], max_retries)
         THEN Leave(Local, Raise(e[Local]))
         ELSE Leave(Local, Continue)
    /\ UNCHANGED <<config, clock, ctor, attempts, e, calls, faults>>

\* ------------------------------------------------------------------ Spec
Next ==
    \/ M_Construct
    \/ M_Start
    \/ M_Loop
    \/ M_Task
    \/ M_ListFolders
    \/ M_Upload
    \/ M_InsertLog
    \/ M_FinishSuccess
    \/ M_SendMessage
    \/ M_UploadDocument
    \/ M_Except
    \/ M_Error
    \/ M_FinishFailed
    \/ M_ErrSendMessage
    \/ M_ErrUploadDocument
    \/ M_Check
    \/ M_GiveUpListFolders
    \/ M_GiveUpUpload
    \/ M_Finally
    \/ L_Construct
    \/ L_Start
    \/ L_Loop
    \/ L_Task
    \/ L_ListFolders
    \/ L_Upload
    \/ L_InsertLog
    \/ L_SendMessage
    \/ L_UploadDocument
    \/ L_Except
    \/ L_ErrSendMessage
    \/ L_ErrUploadDocument
    \/ L_Check

Spec == Init /\ [][Next]_vars

\* one BotRunnerMaestro and its run(), with the clock
TimeNext ==
    \/ M_Construct
    \/ M_Start
    \/ M_Loop
    \/ M_Task
    \/ M_ListFolders
    \/ M_Upload
    \/ M_InsertLog
    \/ M_FinishSuccess
    \/ M_SendMessage
    \/ M_UploadDocument
    \/ M_Except
    \/ M_Error
    \/ M_FinishFailed
    \/ M_ErrSendMessage
    \/ M_ErrUploadDocument
    \/ M_Check
    \/ M_GiveUpListFolders
    \/ M_GiveUpUpload
    \/ M_Finally

SpecTime == TimeInit /\ [][TimeNext]_vars

\* ---------------------------------------------------------- properties
Done(r) == pc[r] = "done"
Returned == [kind |-> "returned", err |-> NoError]
RaisedWith(err) == [kind |-> "raised", err |-> err]

\* every collaborator call r made so far returned normally
NoCollabRaise(r) ==
    \A i \in 1 .. Len(calls[r]) : IsCollab(calls[r][i]) => calls[r][i].ok
\* the task function raises on every invocation a run can make
AlwaysFails == \A i \in 1 .. (max_retries + 1) : ~taskPlan[i]
\* the task function raises on its first k invocations and returns on the next
FailsThenSucceeds(k) ==
    /\ k + 1 \in DOMAIN taskPlan
    /\ \A i \in 1 .. k : ~taskPlan[i]
    /\ taskPlan[k + 1]

FlushCalls(r) == Len(SelectSeq(calls[r], IsFlush))
FinishCalls(r) == SelectSeq(calls[r], IsFinish)
\* the calls made before the j-th one
Before(r, j) == SubSeq(calls[r], 1, j - 1)
\* the calls made after the last invocation of the task function
RECURSIVE LastTaskIndex(_)
LastTaskIndex(sq) ==
    IF sq = <<>> THEN 0
    ELSE IF IsTask(sq[Len(sq)]) THEN Len(sq)
    ELSE LastTaskIndex(SubSeq(sq, 1, Len(sq) - 1))
LastAttempt(r) ==
    SubSeq(calls[r], LastTaskIndex(calls[r]) + 1, Len(calls[r]))
OpArg(c) == <<c.op, c.arg>>
OpArgs(sq) == [i \in 1 .. Len(sq) |-> OpArg(sq[i])]

\* C1: with max_retries = N >= 0, a task function that raises on every
\* invocation and collaborators that all return, BotRunnerMaestro.run() has
\* invoked the task function exactly N+1 times when it ends, and it ends by
\* raising the error of the last invocation.
C1_AlwaysFailingTask ==
    (/\ Done(Maestro)
     /\ max_retries >= 0
     /\ AlwaysFails
     /\ NoCollabRaise(Maestro))
    => /\ TaskCalls(Maestro) = max_retries + 1
       /\ result[Maestro] = RaisedWith(TaskError(max_retries + 1))

C1_Witness ==
    /\ Done(Maestro)
    /\ max_retries = MaxRetriesBound
    /\ AlwaysFails
    /\ NoCollabRaise(Maestro)
    /\ result[Maestro].kind = "raised"

\* C2: with max_retries = N >= 0, a task function that raises on its first
\* k <= N invocations and returns on the next, and collaborators that all
\* return, BotRunnerMaestro.run() has invoked the task function exactly k+1
\* times when it ends, and it returns normally.
C2_FailsThenSucceeds ==
    \A k \in 0 .. MaxRetriesBound :
        (/\ Done(Maestro)
         /\ max_retries >= 0
         /\ k <= max_retries
         /\ FailsThenSucceeds(k)
         /\ NoCollabRaise(Maestro))
        => /\ TaskCalls(Maestro) = k + 1
           /\ result[Maestro] = Returned

C2_Witness ==
    /\ Done(Maestro)
    /\ max_retries = MaxRetriesBound
    /\ FailsThenSucceeds(max_retries)
    /\ max_retries >= 1
    /\ NoCollabRaise(Maestro)
    /\ result[Maestro] = Returned

\* C3: when BotRunnerMaestro.run() has ended (max_retries >= 0, collaborators
\* all returning), finish_task was called exactly once: with SUCCESS iff the
\* last invocation of the task function returned, with FAILED iff the retries
\* were exhausted; an attempt that failed and was retried made no finish_task
\* call.
C3_FinishTaskOnce ==
    (/\ Done(Maestro)
     /\ max_retries >= 0
     /\ NoCollabRaise(Maestro))
    => LET fin == FinishCalls(Maestro)
           last == calls[Maestro][LastTaskIndex(calls[Maestro])]
       IN /\ Len(fin) = 1
          /\ (fin[1].arg = "SUCCESS") <=> last.ok
          /\ (fin[1].arg = "FAILED") <=> (attempts[Maestro] > max_retries)

\* C4: in BotRunnerMaestro.run() the log-artifact flush is called exactly
\* once after each invocation of the task function and before the next one:
\* when the task function is invoked, and when run() has ended, as many
\* flushes as invocations have been made, and never more flushes than
\* invocations; also when collaborator calls raise.
C4_FlushPerAttempt ==
    /\ \A j \in 1 .. Len(calls[Maestro]) :
         IsTask(calls[Maestro][j]) =>
            Len(SelectSeq(Before(Maestro, j), IsFlush))
              = Len(SelectSeq(Before(Maestro, j), IsTask))
    /\ FlushCalls(Maestro) <= TaskCalls(Maestro)
    /\ Done(Maestro) => FlushCalls(Maestro) = TaskCalls(Maestro)

C4_Witness ==
    /\ Done(Maestro)
    /\ TaskCalls(Maestro) >= 2
    /\ ~NoCollabRaise(Maestro)
    /\ result[Maestro].kind = "raised"
    /\ FlushCalls(Maestro) = TaskCalls(Maestro)

\* C5: task success is terminal, in both runners: once an invocation of the
\* task function has returned, run() makes no further invocation, no
\* orchestrator error report and no finish_task FAILED call, whatever the
\* reporting calls made after it do.
C5_SuccessIsTerminal ==
    \A r \in Runners :
      \A i \in 1 .. Len(calls[r]) :
        (IsTask(calls[r][i]) /\ calls[r][i].ok) =>
          \A j \in (i + 1) .. Len(calls[r]) :
            /\ ~IsTask(calls[r][j])
            /\ ~IsErrorReport(calls[r][j])
            /\ ~(IsFinish(calls[r][j]) /\ calls[r][j].arg = "FAILED")

\* C6: an error raised by a reporting collaborator call is never bound by
\* the except handler nor counted as a failed attempt, no invocation of the
\* task function follows it, and run() ends by raising a collaborator error.
C6_CollaboratorErrorPropagates ==
    \A r \in Runners :
      /\ e[r].kind # "collab"
      /\ \A i \in 1 .. Len(calls[r]) :
           (IsCollab(calls[r][i]) /\ ~calls[r][i].ok) =>
             /\ \A j \in (i + 1) .. Len(calls[r]) : ~IsTask(calls[r][j])
             /\ Done(r) => /\ result[r].kind = "raised"
                           /\ result[r].err.kind = "collab"

\* the calls C7 names, as they appear in a sequence of calls
IsC7Call(c) == c.op \in {"error", "finish_task", "send_message", "upload_files"}
\* C7: when BotRunnerMaestro.run() has exhausted its retries and no
\* collaborator call raised, it ends by raising the error of the last
\* invocation of the task function, and after that invocation it has made,
\* in this order: the orchestrator error report, finish_task FAILED, the
\* notification send iff use_telegram, and the storage upload of the log.
C7_ExhaustedReport ==
    (/\ Done(Maestro)
     /\ max_retries >= 0
     /\ attempts[Maestro] > max_retries
     /\ NoCollabRaise(Maestro))
    => /\ result[Maestro] = RaisedWith(TaskError(TaskCalls(Maestro)))
       /\ ~calls[Maestro][LastTaskIndex(calls[Maestro])].ok
       /\ OpArgs(SelectSeq(LastAttempt(Maestro), IsC7Call))
            = <<<<"error", "-">>, <<"finish_task", "FAILED">>>>
              \o (IF use_telegram THEN <<<<"send_message", "error">>>> ELSE <<>>)
              \o <<<<"upload_files", "-">>>>

C7_Witness ==
    /\ Done(Maestro)
    /\ max_retries >= 1
    /\ attempts[Maestro] > max_retries
    /\ NoCollabRaise(Maestro)
    /\ use_telegram
    /\ result[Maestro].kind = "raised"

LocalMakesToo(c) ==
    /\ c.op \notin {"error", "finish_task", "post_artifact"}
    /\ ~(c.blk = "except" /\ c.op \in {"list_folders_by_number", "upload_files"})

C9_StateOK ==
    \A r \in Runners :
      /\ max_retries >= 0 => TaskCalls(r) <= max_retries + 1
      /\ attempts[r] >= 0
      /\ max_retries >= 0 => attempts[r] <= max_retries + 1
      /\ Done(r) <=> result[r].kind \in {"returned", "raised"}
      /\ result[r].kind \in {"none", "returned", "raised"}
      /\ (result[r].kind = "raised") <=> (result[r].err # NoError)

C9_StepOK ==
    \A r \in Runners :
      /\ (pc[r] = "idle" /\ pc'[r] # "idle") => attempts'[r] = 0
      /\ (pc[r] = "except" /\ pc'[r] # "except") => attempts'[r] = attempts[r] + 1
      /\ (attempts'[r] # attempts[r]) =>
            /\ pc[r] = "except"
            /\ attempts'[r] = attempts[r] + 1
      /\ Done(r) => (pc'[r] = "done" /\ result'[r] = result[r])

C9_BoundedAttempts == [](C9_StateOK) /\ [][C9_StepOK]_vars

C9_Witness ==
    /\ Done(Local)
    /\ Done(Maestro)
    /\ max_retries = MaxRetriesBound
    /\ attempts[Maestro] = max_retries + 1
    /\ TaskCalls(Maestro) = max_retries + 1
    /\ ~NoCollabRaise(Maestro)
    /\ result[Local] = Returned
    /\ attempts[Local] = max_retries

\* C10: with use_telegram=True and telegram_group None or empty neither
\* constructor returns an object (it raises the ValueError of the telegram
\* block, unless an earlier step of the constructor already raised), so no
\* run() and no invocation of the task function follows; with
\* use_telegram=False no constructor raises a ValueError and run() makes no
\* notification-client call.
C10_TelegramGroupRequired ==
    \A r \in Runners :
      /\ (use_telegram /\ telegram_group \in {NoneGroup, ""}) =>
            /\ ctor[r] \in {"none", SetupError, GroupError}
            /\ pc[r] = "new"
            /\ calls[r] = <<>>
      /\ ~use_telegram =>
            /\ ctor[r] \in {"none", SetupError, "ok"}
            /\ SelectSeq(calls[r], IsNotify) = <<>>

C10_Witness ==
    /\ use_telegram
    /\ telegram_group = ""
    /\ ctor[Maestro] = GroupError
    /\ ctor[Local] = GroupError

\* C13: with a negative max_retries, run() of either runner returns normally
\* without invoking the task function and without any collaborator call: the
\* loop test is false on entry.
C13_NegativeRetriesNoAttempt ==
    \A r \in Runners :
      max_retries < 0 =>
        /\ calls[r] = <<>>
        /\ attempts[r] = 0
        /\ pc[r] \in {"new", "idle", "loop", "done"}
        /\ Done(r) => result[r] = Returned

C13_Witness ==
    /\ max_retries < 0
    /\ Done(Maestro) /\ Done(Local)
    /\ result[Maestro] = Returned /\ result[Local] = Returned
    /\ calls[Maestro] = <<>> /\ calls[Local] = <<>>

\* the calls C12 names, as they appear in a sequence of calls
IsC12Call(c) ==
    c.op \in {"upload_files", "insert_log", "finish_task", "send_message",
              "post_artifact"}
\* C12: when BotRunnerMaestro.run() returns after a successful attempt, that
\* attempt made, in this order: the storage upload of the log, the database
\* log insertion, finish_task SUCCESS, the notification send iff
\* use_telegram, then the log-artifact flush; and a finish_task SUCCESS call
\* is always directly preceded by the task function, the storage listing and
\* upload and the database log insertion of its own attempt, all returning.
C12_SuccessReportOrder ==
    /\ (Done(Maestro) /\ result[Maestro] = Returned /\ max_retries >= 0) =>
          /\ calls[Maestro][LastTaskIndex(calls[Maestro])].ok
          /\ OpArgs(SelectSeq(LastAttempt(Maestro), IsC12Call))
               = <<<<"upload_files", "-">>, <<"insert_log", "-">>,
                   <<"finish_task", "SUCCESS">>>>
                 \o (IF use_telegram THEN <<<<"send_message", "completed">>>> ELSE <<>>)
                 \o <<<<"post_artifact", "-">>>>
    /\ \A j \in 1 .. Len(calls[Maestro]) :
          (IsFinish(calls[Maestro][j]) /\ calls[Maestro][j].arg = "SUCCESS") =>
             /\ j > 4
             /\ [i \in 1 .. 4 |-> <<calls[Maestro][j - 5 + i].op, calls[Maestro][j - 5 + i].ok>>]
                  = <<<<"task", TRUE>>, <<"list_folders_by_number", TRUE>>,
                      <<"upload_files", TRUE>>, <<"insert_log", TRUE>>>>

C12_Witness ==
    /\ Done(Maestro)
    /\ result[Maestro] = Returned
    /\ use_telegram
    /\ TaskCalls(Maestro) >= 2
    /\ \E i \in 1 .. Len(calls[Maestro]) :
         calls[Maestro][i].op = "upload_files" /\ ~calls[Maestro][i].ok

\* reading a formatted execution time back
CharAt(str, i) == SubSeq(str, i, i)
IsDigits(str) ==
    /\ Len(str) > 0
    /\ \A i \in 1 .. Len(str) : \E d \in 1 .. 10 : CharAt(str, i) = DigitChar[d]
DigitValue(ch) == (CHOOSE d \in 1 .. 10 : DigitChar[d] = ch) - 1
RECURSIVE ParseNat(_)
ParseNat(str) ==
    IF Len(str) = 0 THEN 0
    ELSE ParseNat(SubSeq(str, 1, Len(str) - 1)) * 10
           + DigitValue(CharAt(str, Len(str)))

\* C11: after an invocation of the task function that took s whole seconds
\* (and a fraction), counted from the start of that attempt, the execution
\* time of BotRunnerMaestro reads DD:HH:MM:SS, every field of digits only and
\* at least two of them, with DD = s div 86400, HH = (s mod 86400) div 3600,
\* MM = (s mod 3600) div 60, SS = s mod 60, so that the fields add up to s
\* with HH < 24, MM < 60, SS < 60; 90061 s reads "01:01:01:01" and 0 s reads
\* "00:00:00:00".
C11_ExecutionTimeFormat ==
    LET k == LastTaskIndex(calls[Maestro]) IN
    (k > 0 /\ calls[Maestro][k].ok) =>
      LET s == taskTicks[Maestro] \div TicksPerSecond
          str == execution_time[Maestro]
          n == Len(str)
          dd == SubSeq(str, 1, n - 9)
          hh == SubSeq(str, n - 7, n - 6)
          mm == SubSeq(str, n - 4, n - 3)
          ss == SubSeq(str, n - 1, n)
      IN /\ n >= 11
         /\ CharAt(str, n - 8) = ":" /\ CharAt(str, n - 5) = ":" /\ CharAt(str, n - 2) = ":"
         /\ IsDigits(dd) /\ IsDigits(hh) /\ IsDigits(mm) /\ IsDigits(ss)
         /\ ParseNat(dd) = s \div 86400
         /\ ParseNat(hh) = (s % 86400) \div 3600
         /\ ParseNat(mm) = (s % 3600) \div 60
         /\ ParseNat(ss) = s % 60
         /\ ParseNat(dd) * 86400 + ParseNat(hh) * 3600 + ParseNat(mm) * 60
              + ParseNat(ss) = s
         /\ ParseNat(hh) < 24 /\ ParseNat(mm) < 60 /\ ParseNat(ss) < 60
         /\ s = 90061 => str = "01:01:01:01"
         /\ s = 0 => str = "00:00:00:00"

\* a second attempt that took 90061 s, after a first one that took time too
C11_Witness ==
    /\ TaskCalls(Maestro) = 2
    /\ ~calls[Maestro][1].ok
    /\ calls[Maestro][LastTaskIndex(calls[Maestro])].ok
    /\ taskTicks[Maestro] \div TicksPerSecond = 90061
    /\ now > 2 * taskTicks[Maestro]
    /\ execution_time[Maestro] = "01:01:01:01"

====
